---------------------------- MODULE Spec2Model ----------------------------
(***************************************************************************)
(* Model of scripts/git_toolbox.py: one process run of the command line    *)
(* tool, which dispatches to build_manifest, build_changelog or check_wip. *)
(*                                                                         *)
(* A Python str is a sequence of one-character strings, so that split,     *)
(* strip, upper, "in" and the ordering used by sorted() are computed and   *)
(* not assumed.  A document is the sequence of the text lines written to   *)
(* it, each line kept as a record of the f-string's kind and of the values *)
(* substituted into it.  The content of a file is what has been written    *)
(* to it when the process ends: the with-statement closes (and flushes)    *)
(* the file also when an exception leaves the block.                       *)
(***************************************************************************)
EXTENDS Integers, Sequences, FiniteSets, TLC

VARIABLES
    cmd,            \* sys.argv[1].lower()
    pc,             \* position of the process in the program
    commits,        \* build_changelog / check_wip: result of get_commits()
    grouped,        \* build_changelog: defaultdict(list), date -> entries
    log_lines,      \* build_manifest: output lines of the extended log
    idx,            \* index of the next element of the running for-loop
    current_commit, \* build_manifest: dict, {} or hash/date/msg
    added,          \* build_manifest: defaultdict(list), path -> entries
    deleted,        \* build_manifest: defaultdict(list), path -> entries
    recent_changes, \* build_manifest: flat list of rendered events
    current_files,  \* build_manifest: output lines of git ls-tree
    changelogFile,  \* content of CHANGELOG.md
    manifestFile,   \* content of MANIFEST.md
    stdout,         \* lines printed
    exitCode,       \* process exit status, -1 while running
    err             \* the uncaught exception that ended the run, or "none"

vars == <<cmd, pc, commits, grouped, log_lines, idx, current_commit, added,
          deleted, recent_changes, current_files, changelogFile,
          manifestFile, stdout, exitCode, err>>

-----------------------------------------------------------------------------
(* Bounds of the inputs.                                                   *)

\* longest freely chosen prefix of the plain log output, in lines
MaxCommits == 3
\* longest freely chosen prefix of the extended log output, in lines
MaxLogLines == 3

RECENT_LIMIT == 5

-----------------------------------------------------------------------------
(* Python str primitives.                                                  *)

LowerCase == <<"a","b","c","d","e","f","g","h","i","j","k","l","m",
               "n","o","p","q","r","s","t","u","v","w","x","y","z">>
UpperCase == <<"A","B","C","D","E","F","G","H","I","J","K","L","M",
               "N","O","P","Q","R","S","T","U","V","W","X","Y","Z">>
Digits == <<"0","1","2","3","4","5","6","7","8","9">>

IndexIn(c, alphabet) ==
    IF \E i \in DOMAIN alphabet : alphabet[i] = c
    THEN CHOOSE i \in DOMAIN alphabet : alphabet[i] = c
    ELSE 0

\* code point of a character: the order str comparison and sorted() use
Ord(c) ==
    IF IndexIn(c, LowerCase) > 0 THEN 96 + IndexIn(c, LowerCase)
    ELSE IF IndexIn(c, UpperCase) > 0 THEN 64 + IndexIn(c, UpperCase)
    ELSE IF IndexIn(c, Digits) > 0 THEN 47 + IndexIn(c, Digits)
    ELSE CASE c = "\t" -> 9
           [] c = " "  -> 32
           [] c = "\"" -> 34
           [] c = "-"  -> 45
           [] c = ":"  -> 58
           [] c = "\\" -> 92
           [] c = "|"  -> 124

\* str.__lt__: lexicographic by code point, a proper prefix is smaller
RECURSIVE StrLess(_, _)
StrLess(a, b) ==
    IF b = <<>> THEN FALSE
    ELSE IF a = <<>> THEN TRUE
    ELSE IF Ord(Head(a)) # Ord(Head(b)) THEN Ord(Head(a)) < Ord(Head(b))
    ELSE StrLess(Tail(a), Tail(b))

IsSpace(c) == c \in {" ", "\t"}

RECURSIVE LStrip(_)
LStrip(s) == IF s # <<>> /\ IsSpace(Head(s)) THEN LStrip(Tail(s)) ELSE s

RECURSIVE RStrip(_)
RStrip(s) ==
    IF s # <<>> /\ IsSpace(s[Len(s)]) THEN RStrip(SubSeq(s, 1, Len(s) - 1))
    ELSE s

\* str.strip()
Strip(s) == RStrip(LStrip(s))

\* str.upper()
UpperChar(c) == IF IndexIn(c, LowerCase) > 0 THEN UpperCase[IndexIn(c, LowerCase)] ELSE c
Upper(s) == [i \in DOMAIN s |-> UpperChar(s[i])]

\* sub in s
Contains(s, sub) ==
    \E i \in 1..(Len(s) - Len(sub) + 1) : SubSeq(s, i, i + Len(sub) - 1) = sub

\* position of the first "|" of s, 0 when there is none
FirstPipe(s) ==
    IF \E i \in DOMAIN s : s[i] = "|"
    THEN CHOOSE i \in DOMAIN s : s[i] = "|" /\ \A j \in 1..(i - 1) : s[j] # "|"
    ELSE 0

\* s.split("|", maxsplit): the list of fields
RECURSIVE SplitPipe(_, _)
SplitPipe(s, maxsplit) ==
    IF maxsplit = 0 \/ FirstPipe(s) = 0 THEN <<s>>
    ELSE <<SubSeq(s, 1, FirstPipe(s) - 1)>>
         \o SplitPipe(SubSeq(s, FirstPipe(s) + 1, Len(s)), maxsplit - 1)

\* position of the first whitespace character of s, 0 when there is none
FirstSpace(s) ==
    IF \E i \in DOMAIN s : IsSpace(s[i])
    THEN CHOOSE i \in DOMAIN s : IsSpace(s[i]) /\ \A j \in 1..(i - 1) : ~IsSpace(s[j])
    ELSE 0

\* s.split(maxsplit=1): leading whitespace is skipped, the first word ends at
\* the first whitespace, the rest (if any is left after the whitespace run)
\* is kept whole, trailing whitespace included
SplitWs1(s) ==
    LET t == LStrip(s)
        k == FirstSpace(t)
        rest == IF k = 0 THEN <<>> ELSE LStrip(SubSeq(t, k + 1, Len(t)))
    IN  IF t = <<>> THEN <<>>
        ELSE IF k = 0 THEN <<t>>
        ELSE IF rest = <<>> THEN <<SubSeq(t, 1, k - 1)>>
        ELSE <<SubSeq(t, 1, k - 1), rest>>

\* sorted(xs) of a list of str
RECURSIVE Insert(_, _)
Insert(x, sortedSeq) ==
    IF sortedSeq = <<>> THEN <<x>>
    ELSE IF StrLess(x, Head(sortedSeq)) THEN <<x>> \o sortedSeq
    ELSE <<Head(sortedSeq)>> \o Insert(x, Tail(sortedSeq))

RECURSIVE Sorted(_)
Sorted(xs) == IF xs = <<>> THEN <<>> ELSE Insert(Head(xs), Sorted(Tail(xs)))

\* the keys of a dict as a list (their order does not matter: every use sorts)
RECURSIVE Keys(_)
Keys(S) ==
    IF S = {} THEN <<>>
    ELSE LET x == CHOOSE y \in S : TRUE IN <<x>> \o Keys(S \ {x})

Reverse(xs) == [i \in DOMAIN xs |-> xs[Len(xs) + 1 - i]]

\* xs[:n]
Take(xs, n) == SubSeq(xs, 1, IF Len(xs) < n THEN Len(xs) ELSE n)

\* d[key].append(entry) on a defaultdict(list)
Append1(d, key, entry) ==
    [k \in DOMAIN d \cup {key} |->
        IF k = key
        THEN (IF key \in DOMAIN d THEN d[key] ELSE <<>>) \o <<entry>>
        ELSE d[k]]

EmptyDict == [k \in {} |-> <<>>]

-----------------------------------------------------------------------------
(* What the version-control queries can return.                            *)

Str3(a, b, c) == a \o <<"|">> \o b \o <<"|">> \o c
Str4(a, b, c, d) == a \o <<"|">> \o b \o <<"|">> \o c \o <<"|">> \o d

Jan09 == <<"2","0","2","4","-","0","1","-","0","9">>
Jan10 == <<"2","0","2","4","-","0","1","-","1","0">>
Dec31 == <<"2","0","2","3","-","1","2","-","3","1">>

\* lines of `git log main --pretty=format:%H|%ad|%an|%s --date=short`
CommitFix   == Str4(<<"c","1">>, Jan09, <<"a","n","n">>, <<"f","i","x">>)
CommitWIP   == Str4(<<"c","2">>, Jan10, <<"b","o","b">>, <<"W","I","P",":"," ","x">>)
CommitWiped == Str4(<<"c","3">>, Jan10, <<"a","n","n">>, <<"w","i","p","e","d">>)
\* an author named "wip" and a subject that holds the delimiter
CommitPipe  == Str4(<<"c","4">>, Dec31, <<"w","i","p">>, <<"a","|","b">>)
\* splitlines() also breaks a line at \r, \x0b, \x0c, \x1c..\x1e, \x85,
\* \u2028 and \u2029: a subject holding one of them arrives as two lines,
\* the second of them without a delimiter
CommitTail  == <<"e","n","d">>

CommitVocab == {CommitFix, CommitWIP, CommitWiped, CommitPipe, CommitTail}

\* a history longer than RECENT_LIMIT
LongLog == <<CommitFix, CommitPipe, CommitFix, CommitFix, CommitPipe, CommitFix>>

SeqsUpTo(S, n) == UNION {[1..k -> S] : k \in 0..n}

LogOutputs == {free \o tail : free \in SeqsUpTo(CommitVocab, MaxCommits),
                              tail \in {<<>>, LongLog}}

PathF1 == <<"f","1">>
PathF2 == <<"f","2">>
PathF3 == <<"f","3">>
\* a file named g|h, and one named g|h|i
PathPipe1 == <<"g","|","h">>
PathPipe2 == <<"g","|","h","|","i">>
\* a file whose name ends in a tab, as git prints it (C-quoted)
PathQuoted == <<"\"","g","\\","t","\"">>

StatusLine(letter, path) == <<letter, "\t">> \o path

\* lines of `git log main --name-status --date=short --pretty=format:%H|%ad|%s`
Header1 == Str3(<<"c","1">>, Jan10, <<"a","d","d">>)
Header2 == Str3(<<"c","2">>, Jan09, <<"a","|","b">>)

NameStatusVocab ==
    {Header1, Header2,
     StatusLine("A", PathF2), StatusLine("D", PathF2), StatusLine("A", PathF1),
     StatusLine("M", PathF3),
     StatusLine("A", PathPipe1), StatusLine("D", PathPipe2)}

\* a history with more than RECENT_LIMIT events
LongHistory ==
    <<Header1, StatusLine("A", PathF2), StatusLine("M", PathF3), <<>>,
      Header2, StatusLine("D", PathF2), StatusLine("A", PathF2),
      StatusLine("A", PathF1), StatusLine("D", PathF1), StatusLine("A", PathF1)>>

NameStatusOutputs ==
    {free \o tail : free \in SeqsUpTo(NameStatusVocab, MaxLogLines),
                    tail \in {<<>>, LongHistory}}

\* outputs of `git ls-tree -r main --name-only`: git orders the entries by
\* their names, and prints a name with a control character quoted, so the
\* printed lines need not be in str order
TreeOutputs ==
    {<<>>, <<PathF1>>, <<PathF1, PathQuoted>>, <<PathF1, PathF2, PathF3>>}

-----------------------------------------------------------------------------
(* Documents.                                                              *)

DocLine(k, a, b, c) == [k |-> k, a |-> a, b |-> b, c |-> c]
Plain(k) == DocLine(k, <<>>, <<>>, <<>>)

\* what CHANGELOG.md and MANIFEST.md hold before the run
OldDoc == <<Plain("(content of an earlier run)")>>

\* f"- {date} - {msg} - Author: {author}\n"
SummaryLine(date, msg, author) == DocLine("- summary", date, msg, author)
\* f"### {date}\n\n"
DateHeader(date) == DocLine("### date", date, <<>>, <<>>)
\* f"- {msg} - {author}\n"
EntryLine(entry) == DocLine("- entry", entry[1], entry[2], <<>>)
\* f"[file] {path}\n"
FileLine(path) == DocLine("file", path, <<>>, <<>>)
\* f"  Added: {entry}\n", f"  Deleted: {entry}\n"
AddedLine(entry) == DocLine("  Added:", entry[1], entry[2], <<>>)
DeletedLine(entry) == DocLine("  Deleted:", entry[1], entry[2], <<>>)
\* f"{date} - Added {path} - \"{msg}\"", f"{date} - Deleted {path} - \"{msg}\""
Change(status, date, path, msg) ==
    [status |-> status, date |-> date, path |-> path, msg |-> msg]
\* f"- {line}\n"
ChangeLine(ch) ==
    DocLine(IF ch.status = "Added" THEN "- Added" ELSE "- Deleted",
            ch.date, ch.path, ch.msg)
Blank == Plain("")

\* the concatenation of the sequences of a list: what a loop of writes emits
RECURSIVE Flatten(_)
Flatten(parts) ==
    IF parts = <<>> THEN <<>> ELSE Head(parts) \o Flatten(Tail(parts))

-----------------------------------------------------------------------------
(* The program.                                                            *)

Init ==
    /\ cmd \in {"manifest", "changelog", "check-wip", "status"}
    /\ pc = "main"
    /\ commits = <<>>
    /\ grouped = EmptyDict
    /\ log_lines = <<>>
    /\ idx = 1
    /\ current_commit = EmptyDict
    /\ added = EmptyDict
    /\ deleted = EmptyDict
    /\ recent_changes = <<>>
    /\ current_files = <<>>
    /\ changelogFile = OldDoc
    /\ manifestFile = OldDoc
    /\ stdout = <<>>
    /\ exitCode = -1
    /\ err = "none"

\* an exception nobody catches: the interpreter prints the traceback to
\* stderr and the process ends with status 1
Raise(exception) ==
    /\ pc' = "exit"
    /\ exitCode' = 1
    /\ err' = exception

\* sys.exit(1) after a print
ExitWith(line, code) ==
    /\ pc' = "exit"
    /\ exitCode' = code
    /\ stdout' = Append(stdout, line)
    /\ err' = "none"

\* the dispatch of __main__, with one argument given
Main ==
    /\ pc = "main"
    /\ IF cmd = "manifest" THEN
            /\ pc' = "manifest_log"
            /\ UNCHANGED <<stdout, exitCode, err>>
       ELSE IF cmd = "changelog" THEN
            /\ pc' = "changelog_commits"
            /\ UNCHANGED <<stdout, exitCode, err>>
       ELSE IF cmd = "check-wip" THEN
            /\ pc' = "wip_commits"
            /\ UNCHANGED <<stdout, exitCode, err>>
       ELSE ExitWith(<<"Invalid command. Use one of: manifest, changelog, check-wip">>, 1)
    /\ UNCHANGED <<cmd, commits, grouped, log_lines, idx, current_commit,
                   added, deleted, recent_changes, current_files,
                   changelogFile, manifestFile>>

\* get_commits(): [line.strip() for line in output.splitlines()]
StripAll(output) == [i \in DOMAIN output |-> Strip(output[i])]

\* the call of get_commits() in build_changelog and in check_wip:
\* check_output raises CalledProcessError when git ends with a status
\* other than 0
GetCommits ==
    /\ pc \in {"changelog_commits", "wip_commits"}
    /\ \/ /\ Raise("CalledProcessError")
          /\ UNCHANGED <<commits, idx, stdout>>
       \/ \E output \in LogOutputs :
            /\ commits' = StripAll(output)
            /\ idx' = 1
            /\ pc' = IF pc = "changelog_commits" THEN "changelog_open" ELSE "wip_loop"
            /\ UNCHANGED <<stdout, exitCode, err>>
    /\ UNCHANGED <<cmd, grouped, log_lines, current_commit, added, deleted,
                   recent_changes, current_files, changelogFile, manifestFile>>

-----------------------------------------------------------------------------
(* build_changelog                                                         *)

\* _, date, author, msg = line.split("|", 3) raises ValueError unless the
\* split yields exactly four fields
Unpacks4(line) == Len(SplitPipe(line, 3)) = 4

\* a slip: grouped[date].insert(0, (msg, author))
GroupPrepend(g, date, entry) ==
    [k \in DOMAIN g \cup {date} |->
        IF k = date
        THEN <<entry>> \o (IF date \in DOMAIN g THEN g[date] ELSE <<>>)
        ELSE g[k]]

\* grouped[date].append((msg, author))
GroupAppend(g, date, entry) == Append1(g, date, entry)

\* the grouping loop over lines, starting from the dict g
RECURSIVE GroupCommits(_, _)
GroupCommits(g, lines) ==
    IF lines = <<>> THEN g
    ELSE LET f == SplitPipe(Head(lines), 3)
         IN  GroupCommits(GroupAppend(g, f[2], <<f[4], f[3]>>), Tail(lines))

\* a slip: xs[:RECENT_LIMIT + 1]
RecentOffByOne(xs) == Take(xs, RECENT_LIMIT + 1)

\* commits[:RECENT_LIMIT], recent_changes[:RECENT_LIMIT]
Recent(xs) == Take(xs, RECENT_LIMIT)

\* a slip: sorted(grouped.keys()), reverse=True forgotten
DateOrderAscending(g) == Sorted(Keys(DOMAIN g))

\* sorted(grouped.keys(), reverse=True)
DateOrder(g) == Reverse(Sorted(Keys(DOMAIN g)))

SummaryOf(line) ==
    LET f == SplitPipe(line, 3) IN <<SummaryLine(f[2], f[4], f[3])>>

\* with open("CHANGELOG.md", "w") as f: f.write("# CHANGELOG\n\n")
ChangelogOpen ==
    /\ pc = "changelog_open"
    /\ changelogFile' = <<Plain("# CHANGELOG")>>
    /\ pc' = "changelog_group"
    /\ UNCHANGED <<cmd, commits, grouped, log_lines, idx, current_commit,
                   added, deleted, recent_changes, current_files,
                   manifestFile, stdout, exitCode, err>>

\* the loop that fills grouped; the first line that does not unpack ends it
\* with a ValueError, which leaves the with-block and closes the file
ChangelogGroup ==
    /\ pc = "changelog_group"
    /\ IF \A i \in DOMAIN commits : Unpacks4(commits[i])
       THEN /\ grouped' = GroupCommits(EmptyDict, commits)
            /\ pc' = "changelog_summary"
            /\ UNCHANGED <<exitCode, err>>
       ELSE /\ Raise("ValueError")
            /\ LET bad == CHOOSE i \in DOMAIN commits :
                              /\ ~Unpacks4(commits[i])
                              /\ \A j \in 1..(i - 1) : Unpacks4(commits[j])
               IN  grouped' = GroupCommits(EmptyDict, SubSeq(commits, 1, bad - 1))
    /\ UNCHANGED <<cmd, commits, log_lines, idx, current_commit, added,
                   deleted, recent_changes, current_files, changelogFile,
                   manifestFile, stdout>>

\* the Summary section and the header of the Full History section
ChangelogSummary ==
    /\ pc = "changelog_summary"
    /\ changelogFile' = changelogFile
                        \o <<Plain("## Summary (Last 5 Commits)")>>
                        \o Flatten([i \in DOMAIN Recent(commits) |-> SummaryOf(Recent(commits)[i])])
                        \o <<Plain("## Full History")>>
    /\ pc' = "changelog_history"
    /\ UNCHANGED <<cmd, commits, grouped, log_lines, idx, current_commit,
                   added, deleted, recent_changes, current_files,
                   manifestFile, stdout, exitCode, err>>

DateSection(date) ==
    LET Entry(e) == <<EntryLine(e)>>
    IN  <<DateHeader(date)>> \o Flatten([i \in DOMAIN grouped[date] |-> Entry(grouped[date][i])]) \o <<Blank>>

\* the date subsections, the end of the with-block and the final print
ChangelogHistory ==
    /\ pc = "changelog_history"
    /\ changelogFile' = changelogFile \o Flatten([i \in DOMAIN DateOrder(grouped) |->
                                    DateSection(DateOrder(grouped)[i])])
    /\ ExitWith(<<"CHANGELOG.md updated.">>, 0)
    /\ UNCHANGED <<cmd, commits, grouped, log_lines, idx, current_commit,
                   added, deleted, recent_changes, current_files,
                   manifestFile>>

-----------------------------------------------------------------------------
(* check_wip                                                               *)

\* a slip: "WIP" in msg, upper() forgotten
WipMatchCaseSensitive(msg) == Contains(msg, <<"W","I","P">>)

\* "WIP" in msg.upper()
WipMatch(msg) == Contains(Upper(msg), <<"W","I","P">>)

\* the part of a commit line check_wip tests
WipField(line) == SplitPipe(line, 3)[4]

\* one iteration of the loop of check_wip
WipStep ==
    /\ pc = "wip_loop"
    /\ idx <= Len(commits)
    /\ IF ~Unpacks4(commits[idx]) THEN
            /\ Raise("ValueError")
            /\ UNCHANGED <<idx, stdout>>
       ELSE IF WipMatch(WipField(commits[idx])) THEN
            /\ ExitWith(<<"Push blocked due to WIP commit:", WipField(commits[idx])>>, 1)
            /\ UNCHANGED idx
       ELSE /\ idx' = idx + 1
            /\ UNCHANGED <<pc, stdout, exitCode, err>>
    /\ UNCHANGED <<cmd, commits, grouped, log_lines, current_commit, added,
                   deleted, recent_changes, current_files, changelogFile,
                   manifestFile>>

\* the loop ran to its end: the print, and the return to __main__, where the
\* script ends
WipDone ==
    /\ pc = "wip_loop"
    /\ idx > Len(commits)
    /\ ExitWith(<<"No WIP commits found.">>, 0)
    /\ UNCHANGED <<cmd, commits, grouped, log_lines, idx, current_commit,
                   added, deleted, recent_changes, current_files,
                   changelogFile, manifestFile>>

-----------------------------------------------------------------------------
(* build_manifest                                                          *)

\* the extended log query
ManifestLog ==
    /\ pc = "manifest_log"
    /\ \/ /\ Raise("CalledProcessError")
          /\ UNCHANGED <<log_lines, idx>>
       \/ \E output \in NameStatusOutputs :
            /\ log_lines' = output
            /\ idx' = 1
            /\ pc' = "manifest_parse"
            /\ UNCHANGED <<exitCode, err>>
    /\ UNCHANGED <<cmd, commits, grouped, current_commit, added, deleted,
                   recent_changes, current_files, changelogFile,
                   manifestFile, stdout>>

\* if "|" in line
IsHeaderLine(line) == Contains(line, <<"|">>)

\* elif line.startswith(("A", "D"))
IsStatusLine(line) == line # <<>> /\ Head(line) \in {"A", "D"}

\* the dict built from the three parts of a header line
CommitContext(parts) == [hash |-> parts[1], date |-> parts[2], msg |-> parts[3]]

\* one iteration of the parsing loop
ManifestParseLine ==
    /\ pc = "manifest_parse"
    /\ idx <= Len(log_lines)
    /\ LET line == log_lines[idx]
           parts == SplitPipe(Strip(line), 2)
           words == SplitWs1(line)
           entry == <<current_commit.date, current_commit.msg>>
       IN  IF IsHeaderLine(line) THEN
                /\ current_commit' = IF Len(parts) = 3 THEN CommitContext(parts)
                                     ELSE current_commit
                /\ idx' = idx + 1
                /\ UNCHANGED <<pc, exitCode, err, added, deleted, recent_changes>>
           ELSE IF IsStatusLine(line) THEN
                IF Len(words) # 2 THEN
                    \* status, path = line.split(maxsplit=1)
                    /\ Raise("ValueError")
                    /\ UNCHANGED <<idx, current_commit, added, deleted, recent_changes>>
                ELSE IF "date" \notin DOMAIN current_commit THEN
                    \* current_commit['date'] of the empty dict
                    /\ Raise("KeyError")
                    /\ UNCHANGED <<idx, current_commit, added, deleted, recent_changes>>
                ELSE
                    /\ IF words[1] = <<"A">> THEN
                            /\ added' = Append1(added, words[2], entry)
                            /\ recent_changes' = Append(recent_changes,
                                   Change("Added", current_commit.date, words[2],
                                          current_commit.msg))
                            /\ UNCHANGED deleted
                       ELSE IF words[1] = <<"D">> THEN
                            /\ deleted' = Append1(deleted, words[2], entry)
                            /\ recent_changes' = Append(recent_changes,
                                   Change("Deleted", current_commit.date, words[2],
                                          current_commit.msg))
                            /\ UNCHANGED added
                       ELSE UNCHANGED <<added, deleted, recent_changes>>
                    /\ idx' = idx + 1
                    /\ UNCHANGED <<pc, exitCode, err, current_commit>>
           ELSE /\ idx' = idx + 1
                /\ UNCHANGED <<pc, exitCode, err, current_commit, added,
                               deleted, recent_changes>>
    /\ UNCHANGED <<cmd, commits, grouped, log_lines, current_files,
                   changelogFile, manifestFile, stdout>>

\* with open("MANIFEST.md", "w") as f, and the two writes before ls-tree
ManifestOpen ==
    /\ pc = "manifest_parse"
    /\ idx > Len(log_lines)
    /\ manifestFile' = <<Plain("# MANIFEST"), Plain("## Current Files")>>
    /\ pc' = "manifest_tree"
    /\ UNCHANGED <<cmd, commits, grouped, log_lines, idx, current_commit,
                   added, deleted, recent_changes, current_files,
                   changelogFile, stdout, exitCode, err>>

\* a slip: the listing used as git returned it
CurrentFilesUnsorted(files) == files

\* sorted(current_files)
CurrentFilesOrder(files) == Sorted(files)

\* sorted(set(list(added.keys()) + list(deleted.keys())))
AllPaths(a, d) == Sorted(Keys(DOMAIN a \cup DOMAIN d))

AddedLines(path) ==
    LET Line(e) == <<AddedLine(e)>>
    IN  IF path \in DOMAIN added THEN Flatten([i \in DOMAIN added[path] |-> Line(added[path][i])]) ELSE <<>>

DeletedLines(path) ==
    LET Line(e) == <<DeletedLine(e)>>
    IN  IF path \in DOMAIN deleted THEN Flatten([i \in DOMAIN deleted[path] |-> Line(deleted[path][i])]) ELSE <<>>

CurrentFileBlock(path) == <<FileLine(path)>> \o AddedLines(path) \o <<Blank>>

HistoryBlock(path) ==
    <<FileLine(path)>> \o AddedLines(path) \o DeletedLines(path) \o <<Blank>>

\* the ls-tree query, made inside the with-block, and the Current Files
\* entries; a CalledProcessError leaves the block and closes the file
ManifestTree ==
    /\ pc = "manifest_tree"
    /\ \/ /\ Raise("CalledProcessError")
          /\ UNCHANGED <<current_files, manifestFile>>
       \/ \E output \in TreeOutputs :
            /\ current_files' = output
            /\ manifestFile' = manifestFile
                               \o Flatten([i \in DOMAIN output |->
                                    CurrentFileBlock(CurrentFilesOrder(output)[i])])
            /\ pc' = "manifest_recent"
            /\ UNCHANGED <<exitCode, err>>
    /\ UNCHANGED <<cmd, commits, grouped, log_lines, idx, current_commit,
                   added, deleted, recent_changes, changelogFile, stdout>>

\* the Recent Changes section
ManifestRecent ==
    /\ pc = "manifest_recent"
    /\ LET Line(ch) == <<ChangeLine(ch)>>
       IN  manifestFile' = manifestFile
                           \o <<Plain("## Recent Changes (Last 5)")>>
                           \o Flatten([i \in DOMAIN Recent(recent_changes) |->
                                        Line(Recent(recent_changes)[i])])
                           \o <<Blank>>
    /\ pc' = "manifest_history"
    /\ UNCHANGED <<cmd, commits, grouped, log_lines, idx, current_commit,
                   added, deleted, recent_changes, current_files,
                   changelogFile, stdout, exitCode, err>>

\* the Full File History section, the end of the with-block and the print
ManifestHistory ==
    /\ pc = "manifest_history"
    /\ manifestFile' = manifestFile
                       \o <<Plain("## Full File History")>>
                       \o Flatten([i \in DOMAIN AllPaths(added, deleted) |->
                                    HistoryBlock(AllPaths(added, deleted)[i])])
    /\ ExitWith(<<"MANIFEST.md updated.">>, 0)
    /\ UNCHANGED <<cmd, commits, grouped, log_lines, idx, current_commit,
                   added, deleted, recent_changes, current_files,
                   changelogFile>>

-----------------------------------------------------------------------------

Next ==
    \/ Main
    \/ GetCommits
    \/ ChangelogOpen
    \/ ChangelogGroup
    \/ ChangelogSummary
    \/ ChangelogHistory
    \/ WipStep
    \/ WipDone
    \/ ManifestLog
    \/ ManifestParseLine
    \/ ManifestOpen
    \/ ManifestTree
    \/ ManifestRecent
    \/ ManifestHistory

Spec == Init /\ [][Next]_vars

-----------------------------------------------------------------------------
(* The formats of git's output, stated without the program's parsing: a    *)
(* commit line is %H|%ad|%an|%s, a header line of the extended log is      *)
(* %H|%ad|%s, and a name-status line is a status letter, a tab and a path. *)
(* Hash, date and author hold no delimiter, so the first delimiters of a   *)
(* line end them, and the subject is all that follows.                     *)

PipePositions(line) == {i \in DOMAIN line : line[i] = "|"}

NthPipe(line, n) ==
    CHOOSE i \in PipePositions(line) :
        Cardinality({j \in PipePositions(line) : j < i}) = n - 1

WellFormedCommit(line) == Cardinality(PipePositions(line)) >= 3

DateOf(line) == SubSeq(line, NthPipe(line, 1) + 1, NthPipe(line, 2) - 1)
AuthorOf(line) == SubSeq(line, NthPipe(line, 2) + 1, NthPipe(line, 3) - 1)
SubjectOf(line) == SubSeq(line, NthPipe(line, 3) + 1, Len(line))

\* the subject of a header line %H|%ad|%s
HeaderSubjectOf(line) == SubSeq(line, NthPipe(line, 2) + 1, Len(line))

GitStatusLine(line) == Len(line) >= 3 /\ line[2] = "\t"
GitAddOrDelete(line) == GitStatusLine(line) /\ line[1] \in {"A", "D"}
GitHeaderLine(line) == ~GitStatusLine(line) /\ Cardinality(PipePositions(line)) >= 2
GitPathOf(line) == SubSeq(line, 3, Len(line))

\* "WIP" in s, compared case-insensitively
HasWipMarker(s) ==
    \E i \in 1..(Len(s) - 2) :
        s[i] \in {"w", "W"} /\ s[i + 1] \in {"i", "I"} /\ s[i + 2] \in {"p", "P"}

MinOf(S) == CHOOSE x \in S : \A y \in S : x <= y
MaxOf(S) == CHOOSE x \in S : \A y \in S : y <= x

Select(doc, kinds) == SelectSeq(doc, LAMBDA l : l.k \in kinds)

\* the position of the first line of a kind in a document, 0 if there is none
PositionOf(doc, kind) ==
    IF \E p \in DOMAIN doc : doc[p].k = kind
    THEN MinOf({p \in DOMAIN doc : doc[p].k = kind})
    ELSE 0

StrictlyAscending(xs) == \A i, j \in DOMAIN xs : i < j => StrLess(xs[i], xs[j])
StrictlyDescending(xs) == \A i, j \in DOMAIN xs : i < j => StrLess(xs[j], xs[i])

ChangelogDone == cmd = "changelog" /\ pc = "exit" /\ exitCode = 0
ManifestDone == cmd = "manifest" /\ pc = "exit" /\ exitCode = 0

-----------------------------------------------------------------------------
(* C1: for a sequence of well-formed commit lines, check_wip exits 1       *)
(* exactly when some subject holds "WIP" in any letter case (hash, date    *)
(* and author are not searched); it then reports one subject, the first    *)
(* matching one, and has examined no commit after it; with no matching     *)
(* subject it exits 0.                                                     *)

WipSubjects == {i \in DOMAIN commits : HasWipMarker(SubjectOf(commits[i]))}

C1_WipGate ==
    (/\ cmd = "check-wip"
     /\ pc = "exit"
     /\ err # "CalledProcessError"
     /\ \A i \in DOMAIN commits : WellFormedCommit(commits[i]))
    => /\ Len(stdout) = 1
       /\ exitCode = 1 <=> WipSubjects # {}
       /\ WipSubjects = {} =>
            /\ exitCode = 0
            /\ Len(stdout[1]) = 1
            /\ idx = Len(commits) + 1
       /\ WipSubjects # {} =>
            /\ Len(stdout[1]) = 2
            /\ stdout[1][2] = SubjectOf(commits[MinOf(WipSubjects)])
            /\ idx = MinOf(WipSubjects)

\* the author of the first commit is "wip", the second subject is "wiped",
\* and a third commit with "WIP: x" follows the reported one
C1_Witness ==
    /\ cmd = "check-wip"
    /\ pc = "exit"
    /\ exitCode = 1
    /\ Len(commits) = 3
    /\ commits[1] = CommitPipe
    /\ commits[2] = CommitWiped
    /\ commits[3] = CommitWIP
    /\ idx = 2

-----------------------------------------------------------------------------
(* C2: when a version-control query of build_changelog or build_manifest   *)
(* fails, the run ends with a non-zero exit and the output file is left    *)
(* exactly as it was before the run.                                       *)

C2_QueryFailureLeavesDocuments ==
    (pc = "exit" /\ err = "CalledProcessError")
    => /\ exitCode # 0
       /\ changelogFile = OldDoc
       /\ manifestFile = OldDoc

-----------------------------------------------------------------------------
(* C3: if an A or D status line stands in the extended log output before   *)
(* any header line, build_manifest aborts with an error, and MANIFEST.md   *)
(* is neither truncated nor written.                                       *)

StatusBeforeHeader(lines) ==
    \E i \in DOMAIN lines :
        /\ GitAddOrDelete(lines[i])
        /\ \A j \in 1..(i - 1) : ~GitHeaderLine(lines[j])

C3_StatusBeforeHeaderAborts ==
    StatusBeforeHeader(log_lines)
    => /\ manifestFile = OldDoc
       /\ pc = "exit" => (exitCode # 0 /\ err \in {"KeyError", "ValueError"})

-----------------------------------------------------------------------------
(* C4: every commit appears exactly once in the Full History section, in   *)
(* the subsection of its own date, and the entries of a subsection are in  *)
(* the order their commits have in the input.                              *)

\* the "- entry" lines that follow line p of doc, up to the next other line
EntriesAfter(doc, p) ==
    LET n == MaxOf({m \in 0..(Len(doc) - p) :
                        \A q \in (p + 1)..(p + m) : doc[q].k = "- entry"})
    IN  SubSeq(doc, p + 1, p + n)

\* the entries of the commits of a date, in input order
EntriesOfDate(date) ==
    LET OfDate(line) == DateOf(line) = date
        Entry(line) == <<EntryLine(<<SubjectOf(line), AuthorOf(line)>>)>>
    IN  Flatten([i \in DOMAIN SelectSeq(commits, OfDate) |->
                    Entry(SelectSeq(commits, OfDate)[i])])

C4_EveryCommitOnceUnderItsDate ==
    ChangelogDone
    => /\ \A i \in DOMAIN commits :
            Cardinality({p \in DOMAIN changelogFile :
                            changelogFile[p] = DateHeader(DateOf(commits[i]))}) = 1
       /\ \A p \in DOMAIN changelogFile :
            changelogFile[p].k = "### date"
            => EntriesAfter(changelogFile, p) = EntriesOfDate(changelogFile[p].a)
       /\ Len(Select(changelogFile, {"- entry"})) = Len(commits)

\* two commits of 2024-01-10 with a commit of 2024-01-09 between them
C4_Witness ==
    /\ ChangelogDone
    /\ commits = <<CommitWIP, CommitFix, CommitWiped>>

-----------------------------------------------------------------------------
(* C5: the date headers of the changelog are in strictly descending        *)
(* lexicographic order, none appears twice, and there is one for each      *)
(* distinct date of the input, in whatever order the dates arrive.         *)

DateHeaders == [i \in DOMAIN Select(changelogFile, {"### date"}) |->
                    Select(changelogFile, {"### date"})[i].a]

C5_DateHeadersDescending ==
    ChangelogDone
    => /\ StrictlyDescending(DateHeaders)
       /\ {DateHeaders[i] : i \in DOMAIN DateHeaders}
            = {DateOf(commits[i]) : i \in DOMAIN commits}

\* three distinct dates that arrive oldest first
C5_Witness ==
    /\ ChangelogDone
    /\ commits = <<CommitPipe, CommitFix, CommitWIP>>

-----------------------------------------------------------------------------
(* C6: the recent section of each report is the first min(5, n) records    *)
(* of its sequence, in the same order: the Summary of the changelog for    *)
(* the fetched commits, Recent Changes of the manifest for the recorded    *)
(* Added/Deleted events; with no record it is empty and no error is raised.*)

Min5(n) == IF n < 5 THEN n ELSE 5

SummaryLines == Select(changelogFile, {"- summary"})
RecentLines == Select(manifestFile, {"- Added", "- Deleted"})

C6_RecentIsFirstFive ==
    /\ ChangelogDone
       => /\ Len(SummaryLines) = Min5(Len(commits))
          /\ \A i \in DOMAIN SummaryLines :
                SummaryLines[i] = SummaryLine(DateOf(commits[i]),
                                              SubjectOf(commits[i]),
                                              AuthorOf(commits[i]))
    /\ ManifestDone
       => /\ Len(RecentLines) = Min5(Len(recent_changes))
          /\ \A i \in DOMAIN RecentLines :
                RecentLines[i] = ChangeLine(recent_changes[i])
    /\ (cmd = "changelog" /\ pc = "exit" /\ commits = <<>>
            /\ err # "CalledProcessError")
       => exitCode = 0

\* more commits than the limit
C6_Witness ==
    /\ ChangelogDone
    /\ Len(commits) = 7
    /\ commits[1] = CommitWIP

-----------------------------------------------------------------------------
(* C7: the Full File History section lists the paths of the A and D status *)
(* lines of the extended log output, each once, in ascending order; a path *)
(* is followed by its Added entries and then its Deleted entries, a path   *)
(* with only D lines has no Added entry, and paths of other status         *)
(* letters are absent.                                                     *)

\* the lines of MANIFEST.md after the header of a section, to the end
SectionFrom(kind) ==
    SubSeq(manifestFile, PositionOf(manifestFile, kind) + 1, Len(manifestFile))

HistorySection == SectionFrom("## Full File History")

HistoryPaths == [i \in DOMAIN Select(HistorySection, {"file"}) |->
                    Select(HistorySection, {"file"})[i].a]

PathsWithStatus(letters) ==
    {GitPathOf(log_lines[i]) :
        i \in {j \in DOMAIN log_lines :
                  GitStatusLine(log_lines[j]) /\ log_lines[j][1] \in letters}}

C7_FullHistoryListsEveryPath ==
    ManifestDone
    => /\ StrictlyAscending(HistoryPaths)
       /\ {HistoryPaths[i] : i \in DOMAIN HistoryPaths} = PathsWithStatus({"A", "D"})
       /\ \A p \in DOMAIN HistorySection :
            /\ (p > 1 /\ HistorySection[p].k = "  Added:")
               => HistorySection[p - 1].k \in {"file", "  Added:"}
            /\ (HistorySection[p].k = "file" /\ p < Len(HistorySection)
                    /\ HistorySection[p].a \notin PathsWithStatus({"A"}))
               => HistorySection[p + 1].k # "  Added:"

-----------------------------------------------------------------------------
(* C8: the Current Files section lists the paths the tree listing          *)
(* returned, each once, in ascending order, whatever the history holds: a  *)
(* path without a recorded Added event is listed with no annotation, and   *)
(* a path that occurs only in the history is not listed.                   *)

CurrentSection ==
    SubSeq(manifestFile, PositionOf(manifestFile, "## Current Files") + 1,
           PositionOf(manifestFile, "## Recent Changes (Last 5)") - 1)

CurrentPaths == [i \in DOMAIN Select(CurrentSection, {"file"}) |->
                    Select(CurrentSection, {"file"})[i].a]

C8_CurrentFilesAreTheTree ==
    ManifestDone
    => /\ StrictlyAscending(CurrentPaths)
       /\ {CurrentPaths[i] : i \in DOMAIN CurrentPaths}
            = {current_files[i] : i \in DOMAIN current_files}
       /\ Len(CurrentPaths) = Len(current_files)
       /\ \A p \in DOMAIN CurrentSection :
            (CurrentSection[p].k = "file" /\ CurrentSection[p].a \notin DOMAIN added)
            => CurrentSection[p + 1] = Blank

\* the tree holds a path without history, the history a path not in the tree
C8_Witness ==
    /\ ManifestDone
    /\ current_files = <<PathF1, PathQuoted>>
    /\ PathF1 \in DOMAIN added
    /\ PathF2 \in DOMAIN added
    /\ PathQuoted \notin DOMAIN added

-----------------------------------------------------------------------------
(* C9: while build_manifest parses the extended log output, every A or D   *)
(* status line that follows a header line is recorded once in the history  *)
(* of its path and status and once in the flat sequence, with the date and *)
(* subject of the nearest header line before it; no status line is         *)
(* dropped, attached to an older context, or taken for a header.           *)

NearestHeader(lines, i) ==
    IF \E j \in 1..(i - 1) : GitHeaderLine(lines[j])
    THEN MaxOf({j \in 1..(i - 1) : GitHeaderLine(lines[j])})
    ELSE 0

EventAt(lines, i) ==
    Change(IF lines[i][1] = "A" THEN "Added" ELSE "Deleted",
           DateOf(lines[NearestHeader(lines, i)]),
           GitPathOf(lines[i]),
           HeaderSubjectOf(lines[NearestHeader(lines, i)]))

\* the events of the first n lines, in the order of the lines
RECURSIVE EventsUpTo(_, _)
EventsUpTo(lines, n) ==
    IF n = 0 THEN <<>>
    ELSE EventsUpTo(lines, n - 1)
         \o (IF GitAddOrDelete(lines[n]) /\ NearestHeader(lines, n) > 0
             THEN <<EventAt(lines, n)>>
             ELSE <<>>)

\* the entries of a path in a history dict, as the events they stand for
EventsIn(history, status, path) ==
    IF path \in DOMAIN history
    THEN [i \in DOMAIN history[path] |->
            Change(status, history[path][i][1], path, history[path][i][2])]
    ELSE <<>>

C9_EveryStatusLineRecorded ==
    (cmd = "manifest" /\ pc = "manifest_parse" /\ ~StatusBeforeHeader(log_lines))
    => LET events == EventsUpTo(log_lines, idx - 1)
           Of(status, path) ==
               SelectSeq(events, LAMBDA e : e.status = status /\ e.path = path)
       IN  /\ recent_changes = events
           /\ \A i \in DOMAIN events :
                /\ EventsIn(added, "Added", events[i].path)
                     = Of("Added", events[i].path)
                /\ EventsIn(deleted, "Deleted", events[i].path)
                     = Of("Deleted", events[i].path)

-----------------------------------------------------------------------------
(* C10: after a run of build_changelog, CHANGELOG.md is as it was before   *)
(* the run or holds the complete document of the fetched commits; a run    *)
(* that aborts on a malformed commit line leaves no truncated file.        *)

CompleteChangelog ==
    /\ Len(changelogFile) >= 3
    /\ changelogFile[1] = Plain("# CHANGELOG")
    /\ changelogFile[2] = Plain("## Summary (Last 5 Commits)")
    /\ PositionOf(changelogFile, "## Full History") > 0
    /\ Len(Select(changelogFile, {"- entry"})) = Len(commits)

C10_ChangelogWholeOrUntouched ==
    (cmd = "changelog" /\ pc = "exit")
    => changelogFile = OldDoc \/ CompleteChangelog

=============================================================================
